---- MODULE Spec2Model ----
(***************************************************************************)
(* A model of baeckup (j0hann3s/baeckup): the btrfs sync pass              *)
(* (Btrfs.sync_to_target and the routines it calls), the retention phase   *)
(* (Btrfs.run_retention_policies, with the removal of excess snapshots in  *)
(* Btrfs.__rm_excess_snaps), the startup check of the subvolume names      *)
(* (Btrfs.__ck_dup_subvol_names) with the create phase that follows it     *)
(* (Btrfs.create_snapshot), the child processes of the transfer steps, and *)
(* the process lock of run.py.                                             *)
(*                                                                         *)
(* Snapshot names are the numbers 1..MaxSnap: the names carry a fixed-width *)
(* time prefix, so the order of the numbers stands for the lexical order of *)
(* the names.  NoSnap stands for the empty string "".                       *)
(***************************************************************************)
EXTENDS Integers, Sequences, FiniteSets, TLC

\* ------------------------------------------------------------------ bounds
MaxSnap == 3
RecursionLimit == 3
MaxEligible == 5
NumProcs == 2
NumDirs == 2

\* latest_common_snap = "" (backup.py:533)
NoSnap == 0

Snaps == 1..MaxSnap

VARIABLES
    \* --- the two repositories (directories on disk)
    srcFS,              \* snapshot names present in source_btrfs_snapshot_path
    tgtFS,              \* snapshot names present in target_btrfs_snapshot_path
    \* --- one sync pass (Btrfs.sync_to_target)
    target,             \* config["target"]: "none", "local" or "remote"
    pc,                 \* position of the pass
    s_snap_names,       \* s_snap_names / s_snaps: the source listing
    t_snap_names,       \* t_snap_names / t_snaps: the target listing
    idx,                \* position of the running for loop (1-based)
    latest_common_snap, \* latest_common_snap of the running frame
    depth,              \* number of nested __inc_sync_to_t frames
    log,                \* the btrfs commands issued so far, with exit statuses
    listing,            \* outcome of the listings of lines 893-900: "none"
                        \* before them, "ok", "source_failed", "target_failed"
    \* --- one call of Btrfs.__rm_excess_snaps
    rpc,                \* position of the call
    policy_lst,         \* the policy: <<minDays, maxDays, minSec, maxSec, keep>>
    eligible_snaps,     \* the list passed in, sorted in place by the call
    given_snaps,        \* the list as it was passed in
    ridx,               \* position in the slice that is being deleted
    rlog,               \* the btrfs subvolume delete commands issued so far
    \* --- one retention phase (Btrfs.run_retention_policies)
    policies,           \* source_btrfs_retention_policies.values(), in order
    pol,                \* how many of them the for loop has taken
    snap_age,           \* per source snapshot: what its name parses to
    snap_names,         \* snap_names of the policy under evaluation
    nlist,              \* how many listings the phase has taken
    \* --- the startup check of the subvolume names
    subvolume_paths,    \* config["source"]["btrfs"]["subvolume_paths"]
    vpc,                \* position of the startup
    \* --- concurrent invocations of run.py main()
    mpc,                \* position of each invocation in main()
    argv,               \* flags of each invocation
    cwd,                \* working directory of each invocation
    lockFile,           \* per directory: the invocation that created
                        \* ./.traesor.lock there, 0 when the file is absent
    ran,                \* per invocation: the lock calls it made and the
                        \* phases it has entered
    \* --- the processes of the transfer steps of one pass
    tpc,                \* position of the engine in the step it executes
    steps,              \* how many transfer steps the pass has to execute
    piped               \* per step started: the state of its btrfs send
                        \* and of its btrfs receive process

syncVars == <<srcFS, tgtFS, target, pc, s_snap_names, t_snap_names, idx,
              latest_common_snap, depth, log, listing>>
rmVars   == <<rpc, policy_lst, eligible_snaps, given_snaps, ridx, rlog>>
retVars  == <<policies, pol, snap_age, snap_names, nlist>>
valVars  == <<subvolume_paths, vpc>>
mainVars == <<mpc, argv, cwd, lockFile, ran>>
pipeVars == <<tpc, steps, piped>>
vars     == <<syncVars, rmVars, retVars, valVars, mainVars, pipeVars>>

\* ------------------------------------------------------------ list helpers
Range(s) == {s[i] : i \in 1..Len(s)}

\* a membership test that looks at the first entry of the list only
InListHead(x, lst) == Len(lst) > 0 /\ lst[1] = x

\* Python's `x in lst`
InList(x, lst) == \E i \in 1..Len(lst) : lst[i] = x

\* ascending order of names: list.sort() (line 775), and the order in which a
\* shell expands the pattern */ (line 270)
Sorted(lst) == SortSeq(lst, LAMBDA a, b : a < b)

\* every order in which a directory listing can return the entries of S
Perms(S) ==
    {s \in [1..Cardinality(S) -> S] : \A i, j \in 1..Cardinality(S) :
                                         i # j => s[i] # s[j]}

\* ===================================================================
\* The sync pass: Btrfs.sync_to_target
\* ===================================================================

\* Backup.get_dir_names: Path.iterdir() yields the entries in arbitrary order
\* and the code does not sort them.
get_dir_names(fs) == Perms(fs)

\* Backup.get_t_rem_dir_names: `for dir in */; do echo "$dir"; done` over ssh,
\* one name per line with the "/" removed, in the order of the shell's
\* expansion.  (For an empty directory the shell leaves the pattern as it is;
\* that entry is no snapshot and is left out here.)
get_t_rem_dir_names(fs) == {Sorted(s) : s \in Perms(fs)}

\* exit statuses of a child process: 0, or non-zero
ExitCodes == {0, 1}

\* a sync_to_target that prunes the target before it transfers
NextStageSwapped(stage) ==
    CASE stage = "start" -> "prune"
      [] stage = "prune" -> "inc"
      [] stage = "inc"   -> "done"

\* the order of the stages of sync_to_target: the listings (893-900), the
\* transfers (902-906), the pruning (912-916)
NextStage(stage) ==
    CASE stage = "start" -> "inc"
      [] stage = "inc"   -> "prune"
      [] stage = "prune" -> "done"

\* entering a stage resets the loop position of that stage
Enter(stage) ==
    /\ pc' = stage
    /\ idx' = 1

\* sync_to_target, lines 871-900: the checks of the config and the listings
SyncInit ==
    /\ srcFS \in SUBSET Snaps
    /\ tgtFS \in SUBSET Snaps
    /\ target \in {"none", "local", "remote"}
    /\ pc = "start"
    /\ s_snap_names = <<>> /\ t_snap_names = <<>> /\ idx = 0
    /\ latest_common_snap = NoSnap /\ depth = 0 /\ log = <<>>
    /\ listing = "none"
    /\ rpc = "idle" /\ policy_lst = <<>> /\ eligible_snaps = <<>>
    /\ given_snaps = <<>> /\ ridx = 0 /\ rlog = <<>>
    /\ policies = <<>> /\ pol = 0 /\ snap_age = <<>> /\ snap_names = <<>>
    /\ nlist = 0
    /\ subvolume_paths = <<>> /\ vpc = "idle"
    /\ mpc = <<>> /\ argv = <<>> /\ cwd = <<>> /\ lockFile = <<>> /\ ran = <<>>
    /\ tpc = "idle" /\ steps = 0 /\ piped = <<>>

\* a sync_to_target without the checks of lines 882 and 887
HasTargetAlways(t) == TRUE

\* lines 882 and 887: "target" in config and "btrfs" in config["target"]
\* (Btrfs.__init__ has rejected a target without "btrfs", lines 391-396)
HasTarget(t) == t # "none"

\* lines 882-884: no target, sys.exit(1)
NoTarget ==
    /\ pc = "start"
    /\ ~HasTarget(target)
    /\ pc' = "fatal"
    /\ UNCHANGED <<srcFS, tgtFS, target, s_snap_names, t_snap_names, idx,
                   latest_common_snap, depth, log,
                   listing, rmVars, mainVars, retVars, valVars,
                   pipeVars>>

\* lines 893-900: both listings succeed
ListSnapshots ==
    /\ pc = "start"
    /\ HasTarget(target)
    /\ s_snap_names' \in get_dir_names(srcFS)
    /\ t_snap_names' \in (IF target = "remote" THEN get_t_rem_dir_names(tgtFS)
                                                ELSE get_dir_names(tgtFS))
    /\ listing' = "ok"
    /\ Enter(NextStage("start"))
    /\ latest_common_snap' = NoSnap
    /\ depth' = 1
    /\ UNCHANGED <<srcFS, tgtFS, target, log,
                   rmVars, mainVars, retVars, valVars,
                   pipeVars>>

\* a sync_to_target that goes on after a listing has failed
OnListFailureIgnored(where) == "inc"

\* how a failed listing ends the pass.  Backup.get_dir_names (line 299):
\* Path(path).iterdir() raises FileNotFoundError or NotADirectoryError, which
\* nothing catches.  Backup.get_t_rem_dir_names (lines 277-283): a non-zero
\* exit status of ssh, sys.exit(1).
OnListFailure(where) == IF where = "remote" THEN "fatal" ELSE "raised"

\* line 894: the source directory cannot be listed
ListSourceFails ==
    /\ pc = "start"
    /\ HasTarget(target)
    /\ listing' = "source_failed"
    /\ Enter(OnListFailure("local"))
    /\ UNCHANGED <<srcFS, tgtFS, target, s_snap_names, t_snap_names,
                   latest_common_snap, depth, log,
                   rmVars, mainVars, retVars, valVars,
                   pipeVars>>

\* lines 897-900: the source is listed, the target cannot be listed
ListTargetFails ==
    /\ pc = "start"
    /\ HasTarget(target)
    /\ s_snap_names' \in get_dir_names(srcFS)
    /\ listing' = "target_failed"
    /\ Enter(OnListFailure(target))
    /\ UNCHANGED <<srcFS, tgtFS, target, t_snap_names,
                   latest_common_snap, depth, log,
                   rmVars, mainVars, retVars, valVars,
                   pipeVars>>

\* --- the commands the pass issues, as they are recorded in log
\* btrfs send -v -p <base> <snap> | btrfs receive <target>   (lines 543-560)
IncrementalTransfer(base, snap, send_rc, recv_rc) ==
    [op |-> "inc", base |-> base, snap |-> snap, rc |-> <<send_rc, recv_rc>>]

\* btrfs send -v <snap> | btrfs receive <target>             (lines 627-642)
FullTransfer(snap, send_rc, recv_rc) ==
    [op |-> "full", base |-> NoSnap, snap |-> snap, rc |-> <<send_rc, recv_rc>>]

\* btrfs subvolume delete <target>/<snap>                    (lines 689-699)
DeleteSnapshot(snap, rc) ==
    [op |-> "del", base |-> NoSnap, snap |-> snap, rc |-> <<rc>>]

\* a deleting loop that gives up at the first delete that fails
OnDeleteStatusFatal(rc, here) == IF rc = 0 THEN here ELSE "fatal"

\* where a deleting loop is after a delete that exited with status rc: a
\* non-zero status is logged with logger.error and nothing else happens
\* (lines 701-706, 729-735, 789-795)
OnDeleteStatus(rc, here) == here

\* every process of the command exited with status 0
Succeeded(cmd) == \A i \in 1..Len(cmd.rc) : cmd.rc[i] = 0

IsTransfer(cmd) == cmd.op \in {"inc", "full"}

\* what a command does to the target repository
TargetAfter(fs, cmd) ==
    IF ~Succeeded(cmd) THEN fs
    ELSE IF IsTransfer(cmd) THEN fs \cup {cmd.snap}
    ELSE fs \ {cmd.snap}

Issue(cmd) ==
    /\ log' = Append(log, cmd)
    /\ tgtFS' = TargetAfter(tgtFS, cmd)

\* --- __inc_sync_to_t / __inc_sync_to_rem_t: the two differ only in the
\* command that receives (btrfs receive, or ssh ... btrfs receive)

\* line 538 (580): if s_snap in t_snaps
IsCommon(s_snap, t_snaps) == InList(s_snap, t_snaps)

\* line 542 (584): elif s_snap not in t_snaps and latest_common_snap != ""
IsMissingWithBase(s_snap, t_snaps, latest) ==
    /\ ~InList(s_snap, t_snaps)
    /\ latest # NoSnap

\* the value of latest_common_snap after an incremental transfer of s_snap:
\* the loop body does not assign it (lines 542-560)
LatestAfterSend(latest, s_snap) == latest

\* the snapshot a full send transfers: s_snaps[0] (line 632)
OldestSnapshot(s_snaps) == s_snaps[1]

InLoop == pc = "inc" /\ idx <= Len(s_snap_names)

\* lines 538-539: a common snapshot
IncCommon ==
    /\ InLoop
    /\ IsCommon(s_snap_names[idx], t_snap_names)
    /\ latest_common_snap' = s_snap_names[idx]
    /\ idx' = idx + 1
    /\ UNCHANGED <<srcFS, tgtFS, target, pc, s_snap_names, t_snap_names,
                   depth, log,
                   listing, rmVars, mainVars, retVars, valVars,
                   pipeVars>>

\* lines 542-560: a missing snapshot is sent with latest_common_snap as its
\* parent; communicate() returns and the exit statuses are not looked at
IncSend ==
    /\ InLoop
    /\ ~IsCommon(s_snap_names[idx], t_snap_names)
    /\ IsMissingWithBase(s_snap_names[idx], t_snap_names, latest_common_snap)
    /\ \E send_rc \in ExitCodes, recv_rc \in ExitCodes :
          Issue(IncrementalTransfer(latest_common_snap, s_snap_names[idx],
                                    send_rc, recv_rc))
    /\ latest_common_snap' =
          LatestAfterSend(latest_common_snap, s_snap_names[idx])
    /\ idx' = idx + 1
    /\ UNCHANGED <<srcFS, target, pc, s_snap_names, t_snap_names, depth,
                   listing, rmVars, mainVars, retVars, valVars,
                   pipeVars>>

\* neither branch is taken: a missing snapshot while no common one was seen
IncSkip ==
    /\ InLoop
    /\ ~IsCommon(s_snap_names[idx], t_snap_names)
    /\ ~IsMissingWithBase(s_snap_names[idx], t_snap_names, latest_common_snap)
    /\ idx' = idx + 1
    /\ UNCHANGED <<srcFS, tgtFS, target, pc, s_snap_names, t_snap_names,
                   latest_common_snap, depth, log,
                   listing, rmVars, mainVars, retVars, valVars,
                   pipeVars>>

LoopDone == pc = "inc" /\ idx > Len(s_snap_names)

\* line 563 is false: the frame returns, and so does every frame below it
\* (the recursive call is the last statement of a frame)
IncReturn ==
    /\ LoopDone
    /\ latest_common_snap # NoSnap
    /\ Enter(NextStage("inc"))
    /\ UNCHANGED <<srcFS, tgtFS, target, s_snap_names, t_snap_names,
                   latest_common_snap, depth, log,
                   listing, rmVars, mainVars, retVars, valVars,
                   pipeVars>>

\* lines 563-565 with an empty source listing: s_snaps[0] raises IndexError
\* in __full_sync_to_t before a command is started
FullSyncIndexError ==
    /\ LoopDone
    /\ latest_common_snap = NoSnap
    /\ Len(s_snap_names) = 0
    /\ pc' = "raised"
    /\ UNCHANGED <<srcFS, tgtFS, target, s_snap_names, t_snap_names, idx,
                   latest_common_snap, depth, log,
                   listing, rmVars, mainVars, retVars, valVars,
                   pipeVars>>

\* lines 563-566: full send of s_snaps[0], then the routine calls itself with
\* the same s_snaps and the same t_snaps
FullSyncAndRecurse ==
    /\ LoopDone
    /\ latest_common_snap = NoSnap
    /\ Len(s_snap_names) > 0
    /\ depth < RecursionLimit
    /\ \E send_rc \in ExitCodes, recv_rc \in ExitCodes :
          Issue(FullTransfer(OldestSnapshot(s_snap_names), send_rc, recv_rc))
    /\ depth' = depth + 1
    /\ idx' = 1
    /\ latest_common_snap' = NoSnap
    /\ UNCHANGED <<srcFS, target, pc, s_snap_names, t_snap_names,
                   listing, rmVars, mainVars, retVars, valVars,
                   pipeVars>>

\* the interpreter's recursion limit is reached: RecursionError
RecursionError ==
    /\ LoopDone
    /\ latest_common_snap = NoSnap
    /\ Len(s_snap_names) > 0
    /\ depth >= RecursionLimit
    /\ pc' = "raised"
    /\ UNCHANGED <<srcFS, tgtFS, target, s_snap_names, t_snap_names, idx,
                   latest_common_snap, depth, log,
                   listing, rmVars, mainVars, retVars, valVars,
                   pipeVars>>

\* --- __del_old_t_snaps / __del_old_rem_t_snaps

\* a pruning loop without the test of line 688
IsObsoleteAlways(t_snap, s_snaps) == TRUE

\* line 688 (714): if t_snap not in s_snaps
IsObsolete(t_snap, s_snaps) == ~InList(t_snap, s_snaps)

InPrune == pc = "prune" /\ idx <= Len(t_snap_names)

\* lines 689-706: the delete is issued; a failure is logged and the loop goes on
PruneDelete ==
    /\ InPrune
    /\ IsObsolete(t_snap_names[idx], s_snap_names)
    /\ \E rc \in ExitCodes :
          /\ Issue(DeleteSnapshot(t_snap_names[idx], rc))
          /\ pc' = OnDeleteStatus(rc, pc)
    /\ idx' = idx + 1
    /\ UNCHANGED <<srcFS, target, s_snap_names, t_snap_names,
                   latest_common_snap, depth,
                   listing, rmVars, mainVars, retVars, valVars,
                   pipeVars>>

PruneKeep ==
    /\ InPrune
    /\ ~IsObsolete(t_snap_names[idx], s_snap_names)
    /\ idx' = idx + 1
    /\ UNCHANGED <<srcFS, tgtFS, target, pc, s_snap_names, t_snap_names,
                   latest_common_snap, depth, log,
                   listing, rmVars, mainVars, retVars, valVars,
                   pipeVars>>

\* the loop of the stage is over: the next stage, or the return at line 918
PruneDone ==
    /\ pc = "prune"
    /\ idx > Len(t_snap_names)
    /\ Enter(NextStage("prune"))
    /\ UNCHANGED <<srcFS, tgtFS, target, s_snap_names, t_snap_names,
                   latest_common_snap, depth, log,
                   listing, rmVars, mainVars, retVars, valVars,
                   pipeVars>>

SyncNext ==
    \/ NoTarget
    \/ ListSnapshots
    \/ ListSourceFails
    \/ ListTargetFails
    \/ IncCommon
    \/ IncSend
    \/ IncSkip
    \/ IncReturn
    \/ FullSyncIndexError
    \/ FullSyncAndRecurse
    \/ RecursionError
    \/ PruneDelete
    \/ PruneKeep
    \/ PruneDone

SpecSync == SyncInit /\ [][SyncNext]_vars


\* ===================================================================
\* Removal of excess snapshots: Btrfs.__rm_excess_snaps
\* ===================================================================

\* the position of the keep count in a policy: policy_lst[4] (line 777)
KeepIndex == 5

\* the keep counts a policy may carry: the startup check (lines 515-522)
\* accepts every int
KeepCounts == (0 - 1)..(MaxEligible + 1)

\* the index (0-based) at which Python's lst[k:] starts
SliceStart(lst, k) ==
    IF k >= 0 THEN (IF k < Len(lst) THEN k ELSE Len(lst))
    ELSE (IF Len(lst) + k > 0 THEN Len(lst) + k ELSE 0)

\* a slice that starts one position late
ExcessStartLate(lst, k) == SliceStart(lst, k + 1)

\* the first position (0-based) of the slice the loop walks:
\* eligible_snaps[policy_lst[4] :] (line 777)
ExcessStart(lst, k) == SliceStart(lst, k)

ExcessEnd(lst, k) == Len(lst)

\* the arguments of a call: a policy and the eligible snapshots, in the order
\* the directory listing gave them
RmInit ==
    /\ \E k \in KeepCounts : policy_lst = <<0, 7, 0, 86399, k>>
    /\ \E S \in SUBSET (1..MaxEligible) : given_snaps \in Perms(S)
    /\ eligible_snaps = given_snaps
    /\ srcFS = Range(given_snaps)
    /\ rpc = "call"
    /\ ridx = 0
    /\ rlog = <<>>
    /\ tgtFS \in {{}, srcFS}
    /\ target = "none" /\ pc = "idle"
    /\ s_snap_names = <<>> /\ t_snap_names = <<>> /\ idx = 0
    /\ latest_common_snap = NoSnap /\ depth = 0 /\ log = <<>>
    /\ listing = "none"
    /\ policies = <<>> /\ pol = 0 /\ snap_age = <<>> /\ snap_names = <<>>
    /\ nlist = 0
    /\ subvolume_paths = <<>> /\ vpc = "idle"
    /\ mpc = <<>> /\ argv = <<>> /\ cwd = <<>> /\ lockFile = <<>> /\ ran = <<>>
    /\ tpc = "idle" /\ steps = 0 /\ piped = <<>>

\* line 775, and the slice of line 777
RmSort ==
    /\ rpc = "call"
    /\ Len(policy_lst) >= KeepIndex
    /\ eligible_snaps' = Sorted(eligible_snaps)
    /\ ridx' = ExcessStart(eligible_snaps, policy_lst[5]) + 1
    /\ rpc' = "loop"
    /\ UNCHANGED <<policy_lst, given_snaps, rlog, syncVars, mainVars, retVars, valVars,
                   pipeVars>>

\* lines 778-795: btrfs subvolume delete; a failure is logged, the loop goes on
RmDelete ==
    /\ rpc = "loop"
    /\ ridx <= ExcessEnd(eligible_snaps, policy_lst[5])
    /\ \E rc \in ExitCodes :
          /\ rlog' = Append(rlog, DeleteSnapshot(eligible_snaps[ridx], rc))
          /\ srcFS' = IF rc = 0 THEN srcFS \ {eligible_snaps[ridx]} ELSE srcFS
          /\ rpc' = OnDeleteStatus(rc, rpc)
    /\ ridx' = ridx + 1
    /\ UNCHANGED <<policy_lst, eligible_snaps, given_snaps>>
    /\ UNCHANGED <<tgtFS, target, pc, s_snap_names, t_snap_names, idx,
                   latest_common_snap, depth, log, listing, mainVars, retVars, valVars,
                   pipeVars>>

RmReturn ==
    /\ rpc = "loop"
    /\ ridx > ExcessEnd(eligible_snaps, policy_lst[5])
    /\ rpc' = "returned"
    /\ UNCHANGED <<policy_lst, eligible_snaps, given_snaps, ridx, rlog,
                   syncVars, mainVars, retVars, valVars,
                   pipeVars>>

RmNext ==
    \/ RmSort
    \/ RmDelete
    \/ RmReturn

SpecRmExcess == RmInit /\ [][RmNext]_vars

\* ===================================================================
\* The retention phase: Btrfs.run_retention_policies
\*
\* __calc_eligible_snaps and __rm_excess_snaps name the directory
\* self.source_snapshot_path and the listing fn.get_dir_names.  Neither name
\* is defined in the sources at hand (Btrfs.__init__ sets
\* source_btrfs_snapshot_path, the listing there is Backup.get_dir_names), so
\* a call of them as given ends in AttributeError.  The phase is modelled
\* with the two names standing for the source snapshot directory and its
\* listing.
\* ===================================================================
MaxPolicies == 2

\* datetime.timedelta: .days and .seconds of a difference of a seconds
DaySeconds == 86400

Days(a) == a \div DaySeconds

Seconds(a) == a % DaySeconds

\* re.search(snap_time_re, snap) finds no match (line 753)
None == <<>>

\* the differences current_time - snap_time that are looked at, in seconds.
\* (The clock is taken to stand still during one phase.)
Ages == {60, DaySeconds - 1, DaySeconds, DaySeconds + 60}

\* the values a configuration may give for one policy: lists of integers of
\* some length, and a list with an entry that is not an integer
Configured ==
    { [values |-> <<0, 0, 0, 60, 1>>, all_int |-> TRUE],
      [values |-> <<1, 1, 60, DaySeconds - 1, 0>>, all_int |-> TRUE],
      [values |-> <<0, 7, 0, DaySeconds - 1>>, all_int |-> TRUE],
      [values |-> <<0, 7, 0, DaySeconds - 1, 2>>, all_int |-> FALSE] }

\* lines 506-522: the value is a list and each of its entries is an int;
\* its length is not looked at
ck_s_btrfs_ret_policies(c) == c.all_int

\* the policies a configuration may carry after the startup check
PolicyPool == {c.values : c \in {x \in Configured : ck_s_btrfs_ret_policies(x)}}

PolicySeqs == UNION {[1..n -> PolicyPool] : n \in 0..MaxPolicies}

\* names carry their time as a prefix: a later name is not older
AgesFollowNames(ages) ==
    \A a, b \in DOMAIN ages :
        (a < b /\ ages[a] # None /\ ages[b] # None) => ages[a][1] >= ages[b][1]

\* the listing of the source snapshot directory (line 748)
fn_get_dir_names(fs) == get_dir_names(fs)

\* a window test that shuts out the upper bounds
InWindowExclusive(policy, a) ==
    /\ Days(a) >= policy[1]
    /\ Days(a) < policy[2]
    /\ Seconds(a) >= policy[3]
    /\ Seconds(a) < policy[4]

\* lines 756-761
InWindow(policy, a) ==
    /\ Days(a) >= policy[1]
    /\ Days(a) <= policy[2]
    /\ Seconds(a) >= policy[3]
    /\ Seconds(a) <= policy[4]

\* a loop that passes over the names without a time prefix
UnparsableSkipped(lst, ages) == {}

\* the names of a listing for which re.search returns None, so that .group()
\* raises AttributeError (line 753)
Unparsable(lst, ages) == {i \in 1..Len(lst) : ages[lst[i]] = None}

\* lines 749-764: the names of the listing that pass the window test, in the
\* order of the listing
calc_eligible_snaps(policy, lst, ages) ==
    SelectSeq(lst, LAMBDA s : ages[s] # None /\ InWindow(policy, ages[s][1]))

\* a phase without the check of line 856
HasPoliciesAlways(p) == TRUE

\* line 856: if not self.source_btrfs_retention_policies
HasPolicies(p) == Len(p) > 0

RetInit ==
    /\ policies \in PolicySeqs
    /\ \E S \in SUBSET Snaps :
          /\ snap_age \in [S -> {None} \cup {<<a>> : a \in Ages}]
          /\ srcFS = S
    /\ AgesFollowNames(snap_age)
    /\ pol = 0 /\ snap_names = <<>> /\ nlist = 0
    /\ rpc = "enter" /\ policy_lst = <<>> /\ eligible_snaps = <<>>
    /\ given_snaps = <<>> /\ ridx = 0 /\ rlog = <<>>
    /\ tgtFS = {} /\ target = "none" /\ pc = "idle"
    /\ s_snap_names = <<>> /\ t_snap_names = <<>> /\ idx = 0
    /\ latest_common_snap = NoSnap /\ depth = 0 /\ log = <<>>
    /\ listing = "none"
    /\ subvolume_paths = <<>> /\ vpc = "idle"
    /\ mpc = <<>> /\ argv = <<>> /\ cwd = <<>> /\ lockFile = <<>> /\ ran = <<>>
    /\ tpc = "idle" /\ steps = 0 /\ piped = <<>>

\* lines 856-861: no policies, sys.exit(1)
RetNoPolicies ==
    /\ rpc = "enter"
    /\ ~HasPolicies(policies)
    /\ rpc' = "fatal"
    /\ UNCHANGED <<policy_lst, eligible_snaps, given_snaps, ridx, rlog,
                   syncVars, retVars, valVars, mainVars,
                   pipeVars>>

\* a loop that hands every policy the directory as it was before the loop
ListedBeforeLoop == DOMAIN snap_age

\* lines 863-865: __calc_eligible_snaps is called inside the loop, once per
\* policy and after __rm_excess_snaps of the policy before it, so the
\* directory it lists is the one those deletes have left
ListedAtCall == srcFS

\* at the head of the for loop of line 863
AtPolicyLoop ==
    \/ rpc = "enter" /\ HasPolicies(policies)
    \/ rpc = "returned"

\* lines 863-864 and 747-764: the next policy, a listing, the eligible names
CalcEligible ==
    /\ AtPolicyLoop
    /\ pol < Len(policies)
    /\ \E lst \in fn_get_dir_names(ListedAtCall) :
          /\ Unparsable(lst, snap_age) = {}
          /\ snap_names' = lst
          /\ eligible_snaps' =
                calc_eligible_snaps(policies[pol + 1], lst, snap_age)
    /\ given_snaps' = eligible_snaps'
    /\ policy_lst' = policies[pol + 1]
    /\ pol' = pol + 1
    /\ nlist' = nlist + 1
    /\ rpc' = "call"
    /\ UNCHANGED <<ridx, rlog, policies, snap_age,
                   syncVars, valVars, mainVars,
                   pipeVars>>

\* line 753: a listed name has no time prefix, AttributeError
CalcMalformed ==
    /\ AtPolicyLoop
    /\ pol < Len(policies)
    /\ \E lst \in fn_get_dir_names(ListedAtCall) :
          /\ Unparsable(lst, snap_age) # {}
          /\ snap_names' = lst
    /\ policy_lst' = policies[pol + 1]
    /\ pol' = pol + 1
    /\ nlist' = nlist + 1
    /\ rpc' = "raised"
    /\ UNCHANGED <<eligible_snaps, given_snaps, ridx, rlog, policies, snap_age,
                   syncVars, valVars, mainVars,
                   pipeVars>>

\* line 775, then line 777: policy_lst has no position 4, IndexError
RmIndexError ==
    /\ rpc = "call"
    /\ Len(policy_lst) < KeepIndex
    /\ eligible_snaps' = Sorted(eligible_snaps)
    /\ rpc' = "raised"
    /\ UNCHANGED <<policy_lst, given_snaps, ridx, rlog,
                   syncVars, mainVars, retVars, valVars,
                   pipeVars>>

\* line 867: the policies are used up, the phase returns
RetReturn ==
    /\ AtPolicyLoop
    /\ pol >= Len(policies)
    /\ rpc' = "done"
    /\ UNCHANGED <<policy_lst, eligible_snaps, given_snaps, ridx, rlog,
                   syncVars, retVars, valVars, mainVars,
                   pipeVars>>

RetNext ==
    \/ RetNoPolicies
    \/ CalcEligible
    \/ CalcMalformed
    \/ RmSort
    \/ RmIndexError
    \/ RmDelete
    \/ RmReturn
    \/ RetReturn

SpecRetention == RetInit /\ [][RetNext]_vars

\* one phase that deletes snapshots: a retention phase, or a sync pass
DeletionInit == RetInit \/ SyncInit

DeletionNext == RetNext \/ SyncNext

SpecDeletion == DeletionInit /\ [][DeletionNext]_vars

\* ===================================================================
\* The startup check of the subvolume names: Btrfs.__init__, lines 348-350
\*
\* A path is the sequence of its components and whether "/" trail it:
\* [comps |-> <<1, 2>>, trailing |-> TRUE] stands for "/1/2/", and
\* [comps |-> <<>>, trailing |-> FALSE] for "/".
\* ===================================================================
MaxPaths == 2
NumNames == 2
MaxDepth == 2

Components == UNION {[1..n -> 1..NumNames] : n \in 0..MaxDepth}

Paths == [comps : Components, trailing : BOOLEAN]

\* the values of the setting: a list of paths, repeated entries included
PathLists == UNION {[1..n -> Paths] : n \in 0..MaxPaths}

\* the name n stands in the setting before component k of entry i
UsedBefore(paths, n, i, k) ==
    \/ \E j \in 1..(k - 1) : paths[i].comps[j] = n
    \/ \E h \in 1..(i - 1) :
          \E j \in 1..Len(paths[h].comps) : paths[h].comps[j] = n

\* the names carry no meaning beyond being equal or different: they are
\* numbered in the order in which the setting first uses them
NamesNumberedByFirstUse(paths) ==
    \A i \in 1..Len(paths) :
        \A k \in 1..Len(paths[i].comps) :
            paths[i].comps[k] > 1
                => UsedBefore(paths, paths[i].comps[k] - 1, i, k)

\* the settings that are told apart
PathSettings == {p \in PathLists : NamesNumberedByFirstUse(p)}

\* path.rstrip("/") (lines 462, 464)
rstrip(path) == [path EXCEPT !.trailing = FALSE]

\* re.search("([^/]+$)", path) on a stripped path: the last component, and
\* no match (None) for the stripped root, on which .group() raises
subvol_name(path) ==
    IF path.comps = <<>> THEN None ELSE <<path.comps[Len(path.comps)]>>

\* a check that reports no pair
IsDuplicateNever(a, b) == FALSE

\* line 470, on the stripped paths a and b
IsDuplicate(a, b) == a # b /\ subvol_name(a) = subvol_name(b)

\* the pairs the two loops of lines 461-464 walk, as positions of the list
Pairs(paths) == (1..Len(paths)) \X (1..Len(paths))

\* the pair is walked before the pair q
Before(p, q) == p[1] < q[1] \/ (p[1] = q[1] /\ p[2] <= q[2])

\* lines 466-467 raise on the pair
PairRaises(paths, p) ==
    \/ subvol_name(rstrip(paths[p[1]])) = None
    \/ subvol_name(rstrip(paths[p[2]])) = None

\* the pairs at which the loops stop
Stops(paths) ==
    {p \in Pairs(paths) :
        \/ PairRaises(paths, p)
        \/ IsDuplicate(rstrip(paths[p[1]]), rstrip(paths[p[2]]))}

FirstStop(paths) ==
    CHOOSE p \in Stops(paths) : \A q \in Stops(paths) : Before(p, q)

\* __ck_dup_subvol_names: how the check ends
ck_dup_subvol_names(paths) ==
    IF Stops(paths) = {} THEN "constructed"
    ELSE IF PairRaises(paths, FirstStop(paths)) THEN "raised"
    ELSE "exited"

ValInit ==
    /\ subvolume_paths \in PathSettings
    /\ vpc = "subvol_paths"
    /\ srcFS = {} /\ tgtFS = {} /\ target = "none" /\ pc = "idle"
    /\ s_snap_names = <<>> /\ t_snap_names = <<>> /\ idx = 0
    /\ latest_common_snap = NoSnap /\ depth = 0 /\ log = <<>>
    /\ listing = "none"
    /\ rpc = "idle" /\ policy_lst = <<>> /\ eligible_snaps = <<>>
    /\ given_snaps = <<>> /\ ridx = 0 /\ rlog = <<>>
    /\ policies = <<>> /\ pol = 0 /\ snap_age = <<>> /\ snap_names = <<>>
    /\ nlist = 0
    /\ mpc = <<>> /\ argv = <<>> /\ cwd = <<>> /\ lockFile = <<>> /\ ran = <<>>
    /\ tpc = "idle" /\ steps = 0 /\ piped = <<>>

\* __ck_s_btrfs_subvol_paths (lines 420-449): `btrfs subvolume show` on each
\* path; a path that is no subvolume ends the startup with sys.exit(1)
CheckSubvolPaths ==
    /\ vpc = "subvol_paths"
    /\ \E valid \in BOOLEAN :
          /\ ~valid => subvolume_paths # <<>>
          /\ vpc' = IF valid THEN "dup_names" ELSE "exited"
    /\ UNCHANGED <<subvolume_paths, syncVars, rmVars, retVars, mainVars,
                   pipeVars>>

\* __ck_dup_subvol_names (lines 451-481)
CheckDupSubvolNames ==
    /\ vpc = "dup_names"
    /\ vpc' = ck_dup_subvol_names(subvolume_paths)
    /\ UNCHANGED <<subvolume_paths, syncVars, rmVars, retVars, mainVars,
                   pipeVars>>

\* the rest of the startup, run.py:18, and fn.lock(), run.py:20
StartupLock ==
    /\ vpc = "constructed"
    /\ \E ok \in BOOLEAN : vpc' = IF ok THEN "locked" ELSE "exited"
    /\ UNCHANGED <<subvolume_paths, syncVars, rmVars, retVars, mainVars,
                   pipeVars>>

\* datetime.datetime.now().strftime(...), taken once, before the loop
\* (line 803)
current_time == "YYYY_MM_DD_HH_MM"

\* lines 817-820: f"{current_time}_{subvol_name}" with the last component of
\* the stripped path
snap_name(time, path) == <<time>> \o subvol_name(rstrip(path))

\* btrfs subvolume snapshot -r <subvol_path> <snapshot_path>/<snap_name>
\* (lines 821-833)
CreateSnapshot(snap, rc) ==
    [op |-> "snap", base |-> NoSnap, snap |-> snap, rc |-> <<rc>>]

\* a snapshot command whose destination is the target directory
CreatePathTarget == "target"

\* line 829: the destination is self.source_btrfs_snapshot_path
CreatePath == "source"

\* what a snapshot command does to the repository `side`
RepoAfterCreate(side, fs, cmd) ==
    IF Succeeded(cmd) /\ CreatePath = side THEN fs \cup {cmd.snap} ELSE fs

\* run.py:26 and lines 803-815: create_snapshot is entered
CreateEnter ==
    /\ vpc = "locked"
    /\ vpc' = "create"
    /\ idx' = 1
    /\ UNCHANGED <<subvolume_paths, srcFS, tgtFS, target, pc, s_snap_names,
                   t_snap_names, latest_common_snap, depth, log, listing,
                   rmVars, retVars, mainVars,
                   pipeVars>>

\* lines 816-841: one turn of the loop; a command that fails ends the
\* program with sys.exit(1)
CreateStep ==
    /\ vpc = "create"
    /\ idx <= Len(subvolume_paths)
    /\ \E rc \in ExitCodes :
          LET cmd == CreateSnapshot(
                         snap_name(current_time, subvolume_paths[idx]), rc)
          IN  /\ log' = Append(log, cmd)
              /\ srcFS' = RepoAfterCreate("source", srcFS, cmd)
              /\ tgtFS' = RepoAfterCreate("target", tgtFS, cmd)
              /\ vpc' = IF Succeeded(cmd) THEN "create" ELSE "exited"
    /\ idx' = idx + 1
    /\ UNCHANGED <<subvolume_paths, target, pc, s_snap_names,
                   t_snap_names, latest_common_snap, depth, listing,
                   rmVars, retVars, mainVars,
                   pipeVars>>

\* line 843: the loop is over
CreateReturn ==
    /\ vpc = "create"
    /\ idx > Len(subvolume_paths)
    /\ vpc' = "created"
    /\ UNCHANGED <<subvolume_paths, syncVars, rmVars, retVars, mainVars,
                   pipeVars>>

CreateNext ==
    \/ CreateEnter
    \/ CreateStep
    \/ CreateReturn

ValNext ==
    \/ CheckSubvolPaths
    \/ CheckDupSubvolNames
    \/ StartupLock
    \/ CreateNext

SpecStartup == ValInit /\ [][ValNext]_vars

\* an invocation at run.py:25, with a setting that has passed the startup
CreateInit ==
    /\ subvolume_paths \in
          {p \in PathSettings : ck_dup_subvol_names(p) = "constructed"}
    /\ vpc = "locked"
    /\ srcFS = {} /\ tgtFS = {} /\ target = "none" /\ pc = "idle"
    /\ s_snap_names = <<>> /\ t_snap_names = <<>> /\ idx = 0
    /\ latest_common_snap = NoSnap /\ depth = 0 /\ log = <<>>
    /\ listing = "none"
    /\ rpc = "idle" /\ policy_lst = <<>> /\ eligible_snaps = <<>>
    /\ given_snaps = <<>> /\ ridx = 0 /\ rlog = <<>>
    /\ policies = <<>> /\ pol = 0 /\ snap_age = <<>> /\ snap_names = <<>>
    /\ nlist = 0
    /\ mpc = <<>> /\ argv = <<>> /\ cwd = <<>> /\ lockFile = <<>> /\ ran = <<>>
    /\ tpc = "idle" /\ steps = 0 /\ piped = <<>>

\* one phase of an invocation: a create phase, a call of
\* __rm_excess_snaps, or a sync pass
PhasesInit == CreateInit \/ RmInit \/ SyncInit

PhasesNext == CreateNext \/ RmNext \/ SyncNext

SpecPhases == PhasesInit /\ [][PhasesNext]_vars

\* ------------------------------------------------------------------
\* The processes of the transfer steps (lines 543-560, 627-642; the remote
\* variants 585-610, 654-680 differ by the receiving command only)
\*
\* A step is   proc = Popen(["btrfs", "send", ...], stdout=PIPE)
\*             proc = Popen(["btrfs", "receive", ...], stdin=proc.stdout)
\*             proc.communicate()
\* The second assignment rebinds proc to the receiving process, so that
\* communicate() waits for the receiving process; nothing waits for the
\* sending process and no returncode is read.
\* ------------------------------------------------------------------

\* the number of transfer steps of a pass
MaxSteps == 3

\* the state of a child process: not started, running, or ended with an
\* exit status
NotStarted == "none"

Running == "running"

Exited(rc) == <<"exited", rc>>

HasExited(p) == p \in {Exited(rc) : rc \in ExitCodes}

\* the step that is being executed: the last one started
Current == Len(piped)

TransferInit ==
    /\ steps \in 1..MaxSteps
    /\ tpc = "send"
    /\ piped = <<>>
    /\ srcFS = {} /\ tgtFS = {} /\ target = "local" /\ pc = "idle"
    /\ s_snap_names = <<>> /\ t_snap_names = <<>> /\ idx = 0
    /\ latest_common_snap = NoSnap /\ depth = 0 /\ log = <<>>
    /\ listing = "none"
    /\ rpc = "idle" /\ policy_lst = <<>> /\ eligible_snaps = <<>>
    /\ given_snaps = <<>> /\ ridx = 0 /\ rlog = <<>>
    /\ policies = <<>> /\ pol = 0 /\ snap_age = <<>> /\ snap_names = <<>>
    /\ nlist = 0
    /\ subvolume_paths = <<>> /\ vpc = "idle"
    /\ mpc = <<>> /\ argv = <<>> /\ cwd = <<>> /\ lockFile = <<>> /\ ran = <<>>

\* lines 543-553 (627-635): the sending process is started
PopenSend ==
    /\ tpc = "send"
    /\ Current < steps
    /\ piped' = Append(piped, [send |-> Running, recv |-> NotStarted])
    /\ tpc' = "receive"
    /\ UNCHANGED <<steps, syncVars, rmVars, retVars, valVars, mainVars>>

\* lines 555-558 (637-640): the receiving process is started on the read
\* end of the pipe, and proc is rebound to it
PopenReceive ==
    /\ tpc = "receive"
    /\ piped' = [piped EXCEPT ![Current].recv = Running]
    /\ tpc' = "communicate"
    /\ UNCHANGED <<steps, syncVars, rmVars, retVars, valVars, mainVars>>

\* line 560 (642): proc.communicate() returns when the process proc names,
\* the receiving one, has ended; the loop goes to its next turn
CommunicateReturns ==
    /\ tpc = "communicate"
    /\ HasExited(piped[Current].recv)
    /\ tpc' = "send"
    /\ UNCHANGED <<steps, piped, syncVars, rmVars, retVars, valVars, mainVars>>

\* the loop is over
TransfersDone ==
    /\ tpc = "send"
    /\ Current = steps
    /\ tpc' = "done"
    /\ UNCHANGED <<steps, piped, syncVars, rmVars, retVars, valVars, mainVars>>

\* a btrfs send ends: its stream is written, or it failed, or the pipe broke
SendExits(k) ==
    /\ piped[k].send = Running
    /\ \E rc \in ExitCodes : piped' = [piped EXCEPT ![k].send = Exited(rc)]
    /\ UNCHANGED <<tpc, steps, syncVars, rmVars, retVars, valVars, mainVars>>

\* a btrfs receive ends: with success only at the end of its input, that is
\* after the sending process has closed the pipe; with a failure at any time
ReceiveExits(k) ==
    /\ piped[k].recv = Running
    /\ \E rc \in ExitCodes :
          /\ rc = 0 => HasExited(piped[k].send)
          /\ piped' = [piped EXCEPT ![k].recv = Exited(rc)]
    /\ UNCHANGED <<tpc, steps, syncVars, rmVars, retVars, valVars, mainVars>>

TransferNext ==
    \/ PopenSend
    \/ PopenReceive
    \/ CommunicateReturns
    \/ TransfersDone
    \/ \E k \in 1..Len(piped) : SendExits(k)
    \/ \E k \in 1..Len(piped) : ReceiveExits(k)

SpecTransfer == TransferInit /\ [][TransferNext]_vars

\* ===================================================================
\* Concurrent invocations: run.py main(), function.py lock() and unlock()
\* ===================================================================
Procs == 1..NumProcs

\* the working directories the invocations are started in: lock() opens the
\* relative path ".traesor.lock", unlock() removes os.getcwd() + that name
Dirs == 1..NumDirs

Flags == {"--snap", "--retention", "--sync"}

\* the phases of main() in the order of lines 25-32
Phases == <<"snap", "retention", "sync">>

FlagOf(phase) == "--" \o phase

\* where main() goes when a phase is over (or is not selected)
AfterPhase(phase) ==
    CASE phase = "snap"      -> "retention"
      [] phase = "retention" -> "sync"
      [] phase = "sync"      -> "unlock"

\* how the call made for a phase can end
\*   snap:      create_snapshot returns, or sys.exit(1) (backup.py 811, 841)
\*   retention: run.py:29 calls backup.run_retention_policy(), a name that
\*              class Btrfs of app/backup.py does not define (its method is
\*              run_retention_policies, line 845): the attribute lookup
\*              raises AttributeError and no phase is entered
\*   sync:      sync_to_target returns (918), sys.exit(1) (884, 891, 283) or
\*              raises (IndexError at 632, RecursionError from 566)
PhaseOutcomes(phase) ==
    CASE phase = "snap"      -> {"return", "exit"}
      [] phase = "retention" -> {"no_method"}
      [] phase = "sync"      -> {"return", "exit", "raise"}

\* the position of main() after a call that ended with `outcome`; nothing
\* catches SystemExit or an exception (run.py has no try, no atexit)
AfterCall(phase, outcome) ==
    CASE outcome = "return"    -> AfterPhase(phase)
      [] outcome = "exit"      -> "exited"
      [] outcome = "raise"     -> "raised"
      [] outcome = "no_method" -> "raised"

\* the call has entered the body of the phase
Entered(outcome) == outcome # "no_method"

Terminated == {"ended", "exited", "raised"}

\* between a successful lock() and the unlock() of the same invocation
Holding(i) == mpc[i] \in {"snap", "retention", "sync", "unlock"}

\* the directories carry no meaning beyond being equal or different: they
\* are numbered in the order in which the invocations first use them
NumberedByFirstUse(c) ==
    \A i \in Procs :
        \A d \in 1..(c[i] - 1) : \E j \in 1..(i - 1) : c[j] = d

MainInit ==
    /\ mpc = [i \in Procs |-> "start"]
    /\ argv \in [Procs -> SUBSET Flags]
    /\ cwd \in {c \in [Procs -> Dirs] : NumberedByFirstUse(c)}
    /\ lockFile = [d \in Dirs |-> 0]
    /\ ran = [i \in Procs |-> <<>>]
    /\ srcFS = {} /\ tgtFS = {} /\ target = "none" /\ pc = "idle"
    /\ s_snap_names = <<>> /\ t_snap_names = <<>> /\ idx = 0
    /\ latest_common_snap = NoSnap /\ depth = 0 /\ log = <<>>
    /\ listing = "none"
    /\ rpc = "idle" /\ policy_lst = <<>> /\ eligible_snaps = <<>>
    /\ given_snaps = <<>> /\ ridx = 0 /\ rlog = <<>>
    /\ policies = <<>> /\ pol = 0 /\ snap_age = <<>> /\ snap_names = <<>>
    /\ nlist = 0
    /\ subvolume_paths = <<>> /\ vpc = "idle"
    /\ tpc = "idle" /\ steps = 0 /\ piped = <<>>

\* a main() that goes from the startup to the phases without lock()
AfterStartupUnlocked == Phases[1]

\* where main() goes after the startup: fn.lock() (run.py:20)
AfterStartup == "lock"

\* run.py 13-18: the platform, help and superuser checks, the config and the
\* construction of the backup object; each of them may sys.exit
Startup(i) ==
    /\ mpc[i] = "start"
    /\ \E ok \in BOOLEAN :
          mpc' = [mpc EXCEPT ![i] = IF ok THEN AfterStartup ELSE "exited"]
    /\ UNCHANGED <<argv, cwd, lockFile, ran, syncVars, rmVars, retVars, valVars,
                   pipeVars>>

\* the test open(..., "x") makes: does the file exist
IsLocked(d) == lockFile[d] # 0

\* function.py 153-156: open(".traesor.lock", "x") creates the file
LockAcquire(i) ==
    /\ mpc[i] = "lock"
    /\ ~IsLocked(cwd[i])
    /\ lockFile' = [lockFile EXCEPT ![cwd[i]] = i]
    /\ mpc' = [mpc EXCEPT ![i] = Phases[1]]
    /\ ran' = [ran EXCEPT ![i] = Append(@, "locked")]
    /\ UNCHANGED <<argv, cwd, syncVars, rmVars, retVars, valVars,
                   pipeVars>>

\* a lock() that logs the failure and returns to main()
OnLockDeniedReturns == Phases[1]

\* function.py 158-163: the except branch of lock() ends in sys.exit(1)
OnLockDenied == "exited"

\* function.py 158-163: the file exists, open raises OSError, sys.exit(1)
LockDenied(i) ==
    /\ mpc[i] = "lock"
    /\ IsLocked(cwd[i])
    /\ mpc' = [mpc EXCEPT ![i] = OnLockDenied]
    /\ ran' = [ran EXCEPT ![i] = Append(@, "lock_denied")]
    /\ UNCHANGED <<argv, cwd, lockFile, syncVars, rmVars, retVars, valVars,
                   pipeVars>>

InPhase(i) == \E n \in 1..Len(Phases) : mpc[i] = Phases[n]

\* run.py 25-32: the flag of the phase is not in sys.argv
PhaseSkip(i) ==
    /\ InPhase(i)
    /\ FlagOf(mpc[i]) \notin argv[i]
    /\ mpc' = [mpc EXCEPT ![i] = AfterPhase(mpc[i])]
    /\ UNCHANGED <<argv, cwd, lockFile, ran, syncVars, rmVars, retVars, valVars,
                   pipeVars>>

\* run.py 25-32: the flag is in sys.argv and the phase is called
PhaseRun(i) ==
    /\ InPhase(i)
    /\ FlagOf(mpc[i]) \in argv[i]
    /\ \E outcome \in PhaseOutcomes(mpc[i]) :
          /\ mpc' = [mpc EXCEPT ![i] = AfterCall(mpc[i], outcome)]
          /\ ran' = [ran EXCEPT ![i] =
                        IF Entered(outcome) THEN Append(@, mpc[i]) ELSE @]
    /\ UNCHANGED <<argv, cwd, lockFile, syncVars, rmVars, retVars, valVars,
                   pipeVars>>

\* function.py 168-185: os.remove of the lock file in the working directory.
\* The OSError branch needs the file to be gone, and only unlock removes it.
Unlock(i) ==
    /\ mpc[i] = "unlock"
    /\ IsLocked(cwd[i])
    /\ lockFile' = [lockFile EXCEPT ![cwd[i]] = 0]
    /\ mpc' = [mpc EXCEPT ![i] = "ended"]
    /\ ran' = [ran EXCEPT ![i] = Append(@, "unlocked")]
    /\ UNCHANGED <<argv, cwd, syncVars, rmVars, retVars, valVars,
                   pipeVars>>

MainNext ==
    \/ \E i \in Procs : Startup(i)
    \/ \E i \in Procs : LockAcquire(i)
    \/ \E i \in Procs : LockDenied(i)
    \/ \E i \in Procs : PhaseSkip(i)
    \/ \E i \in Procs : PhaseRun(i)
    \/ \E i \in Procs : Unlock(i)

SpecMain == MainInit /\ [][MainNext]_vars

\* ===================================================================
\* Properties of the sync pass
\* ===================================================================
Listed == listing = "ok"

Transfers == {i \in 1..Len(log) : IsTransfer(log[i])}
FullSends == {i \in 1..Len(log) : log[i].op = "full"}
IncSends  == {i \in 1..Len(log) : log[i].op = "inc"}
Deletes   == {i \in 1..Len(log) : log[i].op = "del"}

AllTransfersSucceeded == \A i \in Transfers : Succeeded(log[i])

CommonSnapshots == Range(s_snap_names) \cap Range(t_snap_names)

Min(S) == CHOOSE x \in S : \A y \in S : x <= y

\* C1: when the source and the target listing share a snapshot and every
\* transfer succeeds, the finished pass leaves every source snapshot on the
\* target, and no full send was issued.
C1_TargetSupersetWithoutFullSend ==
    (pc = "done" /\ CommonSnapshots # {} /\ AllTransfersSucceeded)
        => /\ Range(s_snap_names) \subseteq tgtFS
           /\ FullSends = {}

\* C2: the incremental-sync routine issues at most one transfer step per
\* source snapshot (so the sequence of its steps is finite).
C2_AtMostOneTransferPerSnapshot ==
    Cardinality(Transfers) <= Len(s_snap_names)

\* C3: with a non-empty source of N snapshots that shares nothing with the
\* target, the pass issues one full send, of the minimum-name source snapshot
\* and as its first step, then N-1 incremental sends, and no other transfer.
C3_OneFullSendThenIncrementals ==
    (Listed /\ Len(s_snap_names) > 0 /\ CommonSnapshots = {})
        => /\ \A i \in Transfers : (log[i].op = "full") <=> (i = 1)
           /\ \A i \in FullSends : log[i].snap = Min(Range(s_snap_names))
           /\ pc \notin {"inc"} =>
                 /\ Cardinality(FullSends) = 1
                 /\ Cardinality(IncSends) = Len(s_snap_names) - 1

\* C4: a transfer whose sending or receiving side exits non-zero is the last
\* command of the pass: no later transfer, no deletion, and the pass neither
\* reaches the pruning step nor ends as done.
C4_FailedTransferIsFatal ==
    \A i \in Transfers :
        ~Succeeded(log[i]) => /\ i = Len(log)
                              /\ pc \notin {"prune", "done"}

\* C8: within a pass no transfer step follows a deletion: every deletion of
\* a target snapshot is issued after the last transfer step.
C8_DeletesAfterLastTransfer ==
    /\ \A i \in Deletes : \A j \in Transfers : j < i
    /\ Deletes # {} => pc \in {"prune", "done"}

C8_Witness ==
    \E i \in Transfers : \E j \in Deletes : i < j /\ pc = "done"

\* C9: a pass that reaches the pruning step issues a delete for every
\* snapshot of the target listing that is not in the source listing, and
\* for no snapshot whose name is in the source listing (snapshots that were
\* transferred in this pass among them).
C9_PruneExactlyTargetOnly ==
    /\ \A i \in Deletes :
          /\ log[i].snap \in Range(t_snap_names) \ Range(s_snap_names)
          /\ \A j \in Transfers : log[j].snap # log[i].snap
    /\ pc = "done" =>
          {log[i].snap : i \in Deletes}
              = Range(t_snap_names) \ Range(s_snap_names)

C9_Witness ==
    /\ pc = "done"
    /\ Deletes # {}
    /\ Transfers # {}
    /\ \E i \in Transfers : log[i].snap \in tgtFS
    /\ CommonSnapshots # {}

\* C10: with an empty source listing the pass issues no transfer step and
\* completes without an error.
C10_EmptySourceIsNoOp ==
    (Listed /\ Len(s_snap_names) = 0)
        => /\ Transfers = {}
           /\ pc \notin {"raised", "fatal"}

\* C11: when the source listing and the target listing are equal as sets
\* (empty ones included) the pass issues no transfer step and no deletion;
\* so a pass over an already converged pair of repositories transfers
\* nothing.
C11_EqualSetsIssueNothing ==
    (Listed /\ Range(s_snap_names) = Range(t_snap_names))
        => /\ Transfers = {}
           /\ Deletes = {}

C11_Witness ==
    /\ pc = "done"
    /\ Range(s_snap_names) = Range(t_snap_names)
    /\ Len(s_snap_names) >= 2
    /\ s_snap_names # t_snap_names
    /\ log = <<>>

\* C15: without a configured target the pass ends fatally before either
\* repository is listed, and so before any transfer or deletion.
C15_NoTargetFailsBeforeListing ==
    (target = "none" /\ pc # "start")
        => /\ pc = "fatal"
           /\ listing = "none"
           /\ s_snap_names = <<>> /\ t_snap_names = <<>>
           /\ log = <<>>

C15_Witness ==
    /\ target = "none"
    /\ pc = "fatal"
    /\ srcFS # {} /\ srcFS # tgtFS

ListingFailed == listing \in {"source_failed", "target_failed"}

\* C17: when the listing of the source or of the target fails, the pass has
\* stopped (sys.exit or an uncaught exception) and has issued no transfer
\* and no deletion.
C17_ListingFailureStopsThePass ==
    ListingFailed
        => /\ pc \in {"fatal", "raised"}
           /\ log = <<>>

C17_Witness ==
    /\ listing = "target_failed"
    /\ target = "remote"
    /\ pc = "fatal"
    /\ Len(s_snap_names) > 0
    /\ tgtFS # srcFS


\* the transfers issued before the command at position i of log
EarlierTransfers(i) == {j \in Transfers : j < i}

\* C21: no transfer step is issued for a snapshot that the target listing
\* holds or that an earlier step of the pass has transferred, and no
\* snapshot is transferred twice within a pass.
C21_OnlyMissingSnapshotsOnce ==
    \A i \in Transfers :
        /\ log[i].snap \notin Range(t_snap_names)
        /\ \A j \in EarlierTransfers(i) : log[j].snap # log[i].snap

\* the incremental transfer that comes next after the one at position i
NextIncSend(i) ==
    {j \in IncSends : j > i /\ \A k \in IncSends : ~(i < k /\ k < j)}

\* C23: after an incremental transfer of s that succeeded, the next
\* incremental transfer of the pass has s as its base (and not the common
\* snapshot the chain started from).
C23_BaseFollowsTheChain ==
    \A i \in IncSends :
        Succeeded(log[i]) => \A j \in NextIncSend(i) : log[j].base = log[i].snap

\* C24: whatever the order of the listing, every incremental transfer has a
\* base whose name is smaller than the name of the transferred snapshot, and
\* a full transfer sends the minimum-name source snapshot.
C24_AscendingNameOrder ==
    /\ \A i \in IncSends : log[i].base < log[i].snap
    /\ \A i \in FullSends : log[i].snap = Min(Range(s_snap_names))

\* ===================================================================
\* Properties of the removal of excess snapshots
\* ===================================================================
Eligible == Range(given_snaps)

RmDeleted == {rlog[i].snap : i \in 1..Len(rlog)}

\* the n largest (most recent) names of S
Newest(S, n) == {x \in S : Cardinality({y \in S : y > x}) < n}

\* C5: for a policy with keep count k the deletes are issued for exactly the
\* eligible snapshots other than the k most recent ones, so the k newest are
\* never deleted; with (0, 7, 0, 86399, 2) and five eligible snapshots the
\* three oldest are deleted and the two newest are left.
C5_KeepsTheNewest ==
    (policy_lst[5] >= 0) =>
        /\ RmDeleted \cap Newest(Eligible, policy_lst[5]) = {}
        /\ rpc = "returned" =>
              RmDeleted = Eligible \ Newest(Eligible, policy_lst[5])


Max0(n) == IF n > 0 THEN n ELSE 0

AllDeletesSucceeded == \A i \in 1..Len(rlog) : Succeeded(rlog[i])

Evaluating == rpc \in {"call", "loop", "returned"}

\* the names of the current listing whose age lies in the window of the
\* policy under evaluation, all four bounds included
WindowSet ==
    {s \in Range(snap_names) :
        /\ policy_lst[1] <= Days(snap_age[s][1])
        /\ Days(snap_age[s][1]) <= policy_lst[2]
        /\ policy_lst[3] <= Seconds(snap_age[s][1])
        /\ Seconds(snap_age[s][1]) <= policy_lst[4]}

\* the number of deletes issued for the policy under evaluation
Issued ==
    IF rpc \in {"loop", "returned"}
    THEN ridx - 1 - ExcessStart(eligible_snaps, policy_lst[5])
    ELSE 0

\* the snapshots for which they were issued
CurrentDeletes == {rlog[Len(rlog) - Issued + j].snap : j \in 1..Issued}

FailedDeletes(l) ==
    {i \in 1..Len(l) : l[i].op = "del" /\ ~Succeeded(l[i])}

C14_NoPoliciesIsFatal ==
    (policies = <<>> /\ rpc # "enter")
        => /\ rpc = "fatal"
           /\ nlist = 0
           /\ rlog = <<>>

C14_Witness ==
    /\ policies = <<>>
    /\ rpc = "fatal"
    /\ srcFS # {}

C30_PoliciesHaveFiveParameters ==
    /\ nlist > 0 => Len(policy_lst) = KeepIndex
    /\ rpc = "raised" => Unparsable(snap_names, snap_age) # {}

\* the snapshots deleted with success by the policies before the current one
DeletedEarlier ==
    {rlog[i].snap : i \in {j \in 1..(Len(rlog) - Issued) : Succeeded(rlog[j])}}

Validated == vpc \in {"constructed", "locked"}

\* two entries name different paths (they differ by more than trailing "/")
\* and have the same rightmost component
Clash(a, b) ==
    /\ a.comps # b.comps
    /\ a.comps # <<>> /\ b.comps # <<>>
    /\ a.comps[Len(a.comps)] = b.comps[Len(b.comps)]

HasClash ==
    \E i, j \in 1..Len(subvolume_paths) :
        Clash(subvolume_paths[i], subvolume_paths[j])

Creates == {i \in 1..Len(log) : log[i].op = "snap"}

\* C28: after a startup that passed, the names one create phase generates
\* are pairwise distinct: no two snapshot commands of the phase name the
\* same snapshot.
C28_CreatedNamesAreDistinct ==
    \A i, j \in Creates : i # j => log[i].snap # log[j].snap

\* ===================================================================
\* Properties across the phases
\* ===================================================================

InSync == pc # "idle"

InRetention == rpc # "idle"

InCreate == vpc # "idle"

\* C22: the sync pass (transfers and pruning) leaves the set of source
\* snapshots as it is, and neither retention nor the create phase removes
\* or adds a target snapshot; a source snapshot goes away only in the
\* deleting loop of retention and a target snapshot only in the pruning
\* loop.
C22_DestroyedOnlyByRetentionAndPruning ==
    [][/\ InSync => srcFS' = srcFS
       /\ (InRetention \/ InCreate) => tgtFS' = tgtFS
       /\ ~(srcFS \subseteq srcFS') => rpc = "loop"
       /\ ~(tgtFS \subseteq tgtFS') => pc = "prune"]_vars

\* a sync pass that has transferred a snapshot and pruned another, with the
\* source as it was listed
C22_Witness ==
    /\ pc = "done"
    /\ \E i \in Transfers : Succeeded(log[i])
    /\ \E i \in Deletes : Succeeded(log[i])
    /\ srcFS = Range(s_snap_names)

\* ===================================================================
\* Properties of the transfer steps
\* ===================================================================

\* the steps before the one that is being executed
EarlierSteps == 1..(Current - 1)

\* C27: transfer steps never overlap: when the sending process of a step
\* has been started, the sending and the receiving process of every earlier
\* step have ended, whatever the order in which the two processes of a step
\* end.
C27_StepsNeverOverlap ==
    \A k \in EarlierSteps :
        /\ HasExited(piped[k].send)
        /\ HasExited(piped[k].recv)

\* ===================================================================
\* Properties of the process lock
\* ===================================================================

\* C6: once an invocation that acquired the lock has terminated, on whatever
\* path, the lock file it created is gone.
C6_LockReleasedOnEveryExit ==
    \A i \in Procs :
        mpc[i] \in Terminated => \A d \in Dirs : lockFile[d] # i

\* C7: at most one invocation at a time is between its lock() and its
\* unlock(), and an invocation that finds the lock file exits at once,
\* having run no phase.
C7_MutualExclusion ==
    /\ Cardinality({i \in Procs : Holding(i)}) <= 1
    /\ \A i \in Procs :
          InList("lock_denied", ran[i])
              => mpc[i] = "exited" /\ ran[i] = <<"lock_denied">>

PhaseNames == Range(Phases)

\* the phases an invocation has called, in the order of the calls
PhasesRun(i) == SelectSeq(ran[i], LAMBDA x : x \in PhaseNames)

\* the phases its flags select, in the order of main()
PhasesSelected(i) == SelectSeq(Phases, LAMBDA x : FlagOf(x) \in argv[i])

IsPrefix(s, u) == Len(s) <= Len(u) /\ \A k \in 1..Len(s) : s[k] = u[k]

\* C18: an invocation enters a phase only if its flag is given, and enters
\* the selected phases in the order create, retention, sync, a phase only
\* after the one before it is over; an invocation that ran to its end has
\* executed exactly the selected phases; an invocation that took the lock
\* and stopped before its end stopped in a phase it had entered, and enters
\* no phase after it.
C18_PhasesFollowTheFlags ==
    \A i \in Procs :
        /\ IsPrefix(PhasesRun(i), PhasesSelected(i))
        /\ mpc[i] \in {"unlock", "ended"} => PhasesRun(i) = PhasesSelected(i)
        /\ (mpc[i] \in {"exited", "raised"} /\ InList("locked", ran[i]))
              => /\ PhasesRun(i) # <<>>
                 /\ ran[i][Len(ran[i])] \in PhaseNames

\* C19: an invocation calls a phase (snapshot creation, retention, sync: the
\* steps that create, delete or transfer snapshots) only between its lock()
\* and its unlock(): the lock file of its directory is the one it created,
\* and no call comes before "locked" or after "unlocked".
C19_PhasesRunUnderTheLock ==
    \A i \in Procs :
        /\ InPhase(i) => lockFile[cwd[i]] = i
        /\ \A k \in 1..Len(ran[i]) :
              ran[i][k] \in PhaseNames
                  => /\ ran[i][1] = "locked"
                     /\ \A j \in 1..k : ran[i][j] # "unlocked"

C19_Witness ==
    \E i, j \in Procs :
        /\ i # j
        /\ ran[i] = <<"locked", "snap", "sync", "unlocked">>
        /\ ran[j] = <<"lock_denied">>

\* the invocation has created a lock file and has not called unlock() since
CreatedLock(i) ==
    /\ InList("locked", ran[i])
    /\ ~InList("unlocked", ran[i])

\* C29: an invocation removes a lock file only if it created it: every
\* unlock() follows a successful lock() of the same invocation, and the
\* lock file an invocation created stays in place, as its own, until that
\* invocation removes it; an invocation whose lock() failed, or that exited
\* before lock(), never removes or rewrites it.
C29_OnlyTheCreatorRemovesTheLock ==
    \A i \in Procs :
        /\ InList("unlocked", ran[i]) => ran[i][1] = "locked"
        /\ CreatedLock(i) => lockFile[cwd[i]] = i
        /\ (\E d \in Dirs : lockFile[d] = i) => CreatedLock(i)

\* two invocations in one directory: one was denied the lock, the other has
\* removed the lock file it created
C29_Witness ==
    \E i, j \in Procs :
        /\ i # j
        /\ cwd[i] = cwd[j]
        /\ ran[j] = <<"lock_denied">>
        /\ mpc[i] = "ended"
        /\ ~IsLocked(cwd[i])

====
